---- MODULE Spec2Model ----
(***************************************************************************)
(* Model of src/index.js: the route resolver of pftest.                    *)
(*                                                                         *)
(*   getAllPaths(registry)            resolvePaths of the specification    *)
(*   hasAccess(user, path, paths)                                          *)
(*   getUserPaths(user, paths)        listAccessiblePaths                  *)
(*                                                                         *)
(* A JavaScript string is a sequence of one-character strings, so that     *)
(* concatenation is \o and the empty string is << >>.  The ancestor walk   *)
(* of _getPath is modelled one loop iteration per step.                    *)
(***************************************************************************)
EXTENDS Integers, Sequences, FiniteSets, TLC

(***************************************************************************)
(* Bounds of the model.                                                    *)
(***************************************************************************)
\* Longest registry handed to getAllPaths.
MaxRoutes == 3
\* Route levels range over -1 .. MaxLevel.
MaxLevel == 1
\* Longest registry of the hierarchy specification SpecChain.
MaxChain == 2
\* Loop iterations of one ancestor walk the model follows; only a walk
\* that never ends (a cyclic parent chain) gets this far.
MaxSteps == 4
\* Longest resolved sequence handed directly to hasAccess / getUserPaths.
MaxPaths == 2

(***************************************************************************)
(* JavaScript values.                                                      *)
(***************************************************************************)
\* The value null: a parent that is no string.  The token "null" is no
\* character of the alphabet, so Null differs from every string.
Null == <<"null">>
\* The root marker of _createRoute.
Slash == <<"/">>
\* The empty string.
Empty == << >>
\* Relative paths (and parent references) of the registries explored.
\* "/a" followed by "/" spells "/a/": two routes may share an absolute path.
Segments == {Empty, Slash, <<"/", "a">>, <<"/", "a", "/">>}
\* Levels of the routes of a registry: the sentinel -1 and the valid levels.
Levels == (-1)..MaxLevel
\* User levels reach above every route level.
UserLevels == (-1)..(MaxLevel + 1)
\* absolutePath and access of the ResolvedRoutes handed directly to the
\* access operations, and the paths asked for (one is never resolved).
AbsPaths == {Empty, Slash, <<"/", "a">>}
QueryPaths == AbsPaths \cup {<<"/", "b">>}
AccessValues == (0 - MaxLevel - 1)..MaxLevel

\* JS truthiness of a parent reference (string or null): null and the
\* empty string are falsy, every other string is truthy.
Truthy(v) == v # Null /\ v # Empty

\* A number, or undefined: the result of destructuring { access }.
Num(n) == [def |-> TRUE, n |-> n]
Undefined == [def |-> FALSE, n |-> 0]
\* a > b and a >= b on numbers-or-undefined: a comparison with undefined
\* converts it to NaN and is false.
JsGt(a, b) == a.def /\ b.def /\ a.n > b.n
JsGe(a, b) == a.def /\ b.def /\ a.n >= b.n

\* Math.min in the place of Math.max.
Max_min(a, b) == IF a <= b THEN a ELSE b

\* Math.max(a, b) on integers.
Max(a, b) == IF a >= b THEN a ELSE b

(***************************************************************************)
(* Pure helpers of index.js.                                               *)
(***************************************************************************)
\* level === access in the place of level >= access.
_accessGranted_eq(access, level) ==
  JsGt(access, Num(-1)) /\ access.def /\ level.def /\ level.n = access.n

\* _accessGranted = (access, level) => access > -1 && level >= access
_accessGranted(access, level) == JsGt(access, Num(-1)) /\ JsGe(level, access)

\* _createRoute = (path, absolutePath) =>
\*     path !== '/' ? path + absolutePath : absolutePath
_createRoute(path, absolutePath) ==
  IF path # Slash THEN path \o absolutePath ELSE absolutePath

\* Array.prototype.find as an index: the least index whose element
\* satisfies the test, 0 (undefined) when there is none.
FirstIndex(S) == IF S = {} THEN 0 ELSE CHOOSE k \in S : \A j \in S : k <= j

\* _findParent = registry.find(({ path }) => path === currentParent)
_findParent(reg, cur) ==
  FirstIndex({k \in 1..Len(reg) : reg[k].path = cur})

(***************************************************************************)
(* State.                                                                  *)
(***************************************************************************)
VARIABLES
  registry,       \* the argument of getAllPaths
  pc,             \* "idle", "walk" (inside _getPath), "done", "threw"
  i,              \* index of the route registry.map is at
  absolutePath,   \* locals of _getPath
  access,
  currentParent,
  visited,        \* visited[k]: the indices the walk of route k found as
                  \* parents, in the order of the walk
  result,         \* the ResolvedRoutes registry.map has produced so far
  op,             \* last access operation called: "none", "hasAccess", "getUserPaths"
  user,           \* its user.level
  queryPath,      \* its path argument (hasAccess)
  paths,          \* the resolved array the caller holds and passes
  granted,        \* the boolean hasAccess returned
  threw,          \* whether the access operation raised
  userPaths       \* the array getUserPaths returned

vars == <<registry, pc, i, absolutePath, access, currentParent, visited,
          result, op, user, queryPath, paths, granted, threw, userPaths>>

queryVars == <<op, user, queryPath, granted, threw, userPaths>>

(***************************************************************************)
(* hasAccess and getUserPaths.                                             *)
(***************************************************************************)
\* The last match in the place of the first.
FindPath_last(ps, path) ==
  LET S == {k \in 1..Len(ps) : ps[k].absolutePath = path} IN
    IF S = {} THEN 0 ELSE CHOOSE k \in S : \A j \in S : j <= k

\* paths.find(({ absolutePath }) => absolutePath === path), as an index.
FindPath(ps, path) ==
  FirstIndex({k \in 1..Len(ps) : ps[k].absolutePath = path})

\* The kind of value (paths.find(...) || -1) yields: a found element is an
\* object, and so truthy; undefined is replaced by the number -1.
OrMinusOne(k) == IF k # 0 THEN "object" ELSE "number"

\* const { access } = v raises a TypeError when v is undefined or null.
DestructureThrows(kind) == kind \in {"undefined", "null"}

\* A miss that falls back to the object { access: 0 }.
AccessOf_zero(ps, k) == IF k # 0 THEN Num(ps[k].access) ELSE Num(0)

\* The access destructured: the element's own, or undefined from the
\* number -1, which has no property access.
AccessOf(ps, k) == IF k # 0 THEN Num(ps[k].access) ELSE Undefined

\* Whether hasAccess(user, path, paths) raises.
hasAccessThrows(u, path, ps) == DestructureThrows(OrMinusOne(FindPath(ps, path)))

\* The value hasAccess(user, path, paths) returns.
hasAccess(u, path, ps) ==
  _accessGranted(AccessOf(ps, FindPath(ps, path)), Num(u.level))

\* A filter on each element's own access, with no lookup by absolutePath.
getUserPaths_own(u, ps) ==
  SelectSeq(ps, LAMBDA r : _accessGranted(Num(r.access), Num(u.level)))

\* paths.filter(({ absolutePath }) => hasAccess(user, absolutePath, paths))
getUserPaths(u, ps) ==
  SelectSeq(ps, LAMBDA r : hasAccess(u, r.absolutePath, ps))

(***************************************************************************)
(* Initial states.                                                         *)
(***************************************************************************)
Routes == [path : Segments, parent : Segments \cup {Null}, level : Levels]
Registries(n) == UNION {[1..m -> Routes] : m \in 0..n}

ResolvedRoutes == [absolutePath : AbsPaths, access : AccessValues]
ResolvedSeqs == UNION {[1..m -> ResolvedRoutes] : m \in 0..MaxPaths}

Users == [level : UserLevels]

NoQuery ==
  /\ op = "none"
  /\ user = [level |-> 0]
  /\ queryPath = Empty
  /\ granted = FALSE
  /\ threw = FALSE
  /\ userPaths = << >>

NoWalk ==
  /\ i = 0
  /\ absolutePath = Empty
  /\ access = 0
  /\ currentParent = Null
  /\ visited = [k \in 1..Len(registry) |-> << >>]
  /\ result = << >>

\* A caller about to resolve a registry of at most n routes.
InitRegistry(n) ==
  /\ registry \in Registries(n)
  /\ pc = "idle"
  /\ paths = << >>
  /\ NoWalk
  /\ NoQuery

Init == InitRegistry(MaxRoutes)

InitChain == InitRegistry(MaxChain)

\* A caller holding a resolved array of its own, with no registry resolved.
InitAccess ==
  /\ registry = << >>
  /\ pc = "given"
  /\ paths \in ResolvedSeqs
  /\ NoWalk
  /\ NoQuery

(***************************************************************************)
(* getAllPaths: registry.map(r => _getPath(r.parent, r.path, r.level,      *)
(* registry)).                                                             *)
(***************************************************************************)
\* Entry of _getPath for route k: absolutePath = path, access = level,
\* currentParent = parent.
EnterGetPath(k) ==
  /\ i' = k
  /\ absolutePath' = registry[k].path
  /\ access' = registry[k].level
  /\ currentParent' = registry[k].parent

\* The call of getAllPaths: map over an empty array returns [] at once.
GetAllPaths ==
  /\ pc = "idle"
  /\ IF Len(registry) = 0
       THEN /\ pc' = "done"
            /\ paths' = result
            /\ UNCHANGED <<i, absolutePath, access, currentParent>>
       ELSE /\ pc' = "walk"
            /\ EnterGetPath(1)
            /\ UNCHANGED paths
  /\ UNCHANGED <<registry, visited, result>>
  /\ UNCHANGED queryVars

\* One iteration of while (currentParent) whose _findParent finds a route.
WalkStep ==
  /\ pc = "walk"
  /\ Truthy(currentParent)
  /\ Len(visited[i]) < MaxSteps
  /\ LET p == _findParent(registry, currentParent) IN
       /\ p # 0
       /\ absolutePath' = _createRoute(registry[p].path, absolutePath)
       /\ access' = Max(access, registry[p].level)
       /\ currentParent' = registry[p].parent
       /\ visited' = [visited EXCEPT ![i] = Append(@, p)]
  /\ UNCHANGED <<registry, pc, i, result, paths>>
  /\ UNCHANGED queryVars

\* An iteration whose _findParent returns undefined: destructuring it
\* raises a TypeError, which leaves _getPath, map and getAllPaths.
WalkThrow ==
  /\ pc = "walk"
  /\ Truthy(currentParent)
  /\ Len(visited[i]) < MaxSteps
  /\ _findParent(registry, currentParent) = 0
  /\ pc' = "threw"
  /\ UNCHANGED <<registry, i, absolutePath, access, currentParent, visited,
                 result, paths>>
  /\ UNCHANGED queryVars

\* Loop exit: _getPath returns { absolutePath, access }; map goes on with
\* the next route, or getAllPaths returns the array to the caller.
WalkReturn ==
  /\ pc = "walk"
  /\ ~Truthy(currentParent)
  /\ result' = Append(result, [absolutePath |-> absolutePath, access |-> access])
  /\ IF i < Len(registry)
       THEN /\ pc' = "walk"
            /\ EnterGetPath(i + 1)
            /\ UNCHANGED paths
       ELSE /\ pc' = "done"
            /\ paths' = result'
            /\ UNCHANGED <<i, absolutePath, access, currentParent>>
  /\ UNCHANGED <<registry, visited>>
  /\ UNCHANGED queryVars

(***************************************************************************)
(* The access operations, called on the resolved array the caller holds.   *)
(***************************************************************************)
\* The caller holds a resolved array and has not yet called an access
\* operation: both are pure, so one call from each array shows every result.
HasPaths == pc \in {"done", "given"} /\ op = "none"

HasAccess(u, path) ==
  /\ HasPaths
  /\ op' = "hasAccess"
  /\ user' = u
  /\ queryPath' = path
  /\ threw' = hasAccessThrows(u, path, paths)
  /\ granted' = (~threw' /\ hasAccess(u, path, paths))
  /\ userPaths' = << >>
  /\ UNCHANGED <<registry, pc, i, absolutePath, access, currentParent, visited,
                 result, paths>>

GetUserPaths(u) ==
  /\ HasPaths
  /\ op' = "getUserPaths"
  /\ user' = u
  /\ queryPath' = Empty
  /\ threw' = (\E k \in 1..Len(paths) : hasAccessThrows(u, paths[k].absolutePath, paths))
  /\ granted' = FALSE
  /\ userPaths' = IF threw' THEN << >> ELSE getUserPaths(u, paths)
  /\ UNCHANGED <<registry, pc, i, absolutePath, access, currentParent, visited,
                 result, paths>>

\* The paths a caller of the resolver asks for: those it resolved.
ResolvedPaths == {paths[k].absolutePath : k \in 1..Len(paths)}

Next ==
  \/ GetAllPaths
  \/ WalkStep
  \/ WalkThrow
  \/ WalkReturn
  \/ \E u \in Users : \E path \in ResolvedPaths : HasAccess(u, path)
  \/ \E u \in Users : GetUserPaths(u)

NextAccess ==
  \/ \E u \in Users : \E path \in QueryPaths : HasAccess(u, path)
  \/ \E u \in Users : GetUserPaths(u)

\* Resolution of a registry, then access operations on its result.
Spec == Init /\ [][Next]_vars

\* The same for the registries of the hierarchy claims.
SpecChain == InitChain /\ [][Next]_vars

\* Access operations on an arbitrary resolved array.
SpecAccess == InitAccess /\ [][NextAccess]_vars

(***************************************************************************)
(* Properties of the access operations.                                    *)
(***************************************************************************)
\* The indices of paths whose absolutePath is path.
MatchesOf(ps, path) == {k \in 1..Len(ps) : ps[k].absolutePath = path}

\* C3: hasAccess returns false, and does not raise, whenever no element of
\* the resolved array has the absolutePath asked for, whatever the user's
\* level and also for the empty array.
C3_MissFailsClosed ==
  (op = "hasAccess" /\ MatchesOf(paths, queryPath) = {})
    => (~threw /\ granted = FALSE)

\* A miss on a non-empty array by a user above every route level.
C3_Witness ==
  /\ op = "hasAccess"
  /\ Len(paths) > 0
  /\ MatchesOf(paths, queryPath) = {}
  /\ user.level = MaxLevel + 1
  /\ granted = FALSE

\* C4: when some element has the absolutePath asked for, hasAccess returns
\* true exactly when a > -1 and user.level >= a, a being the access of the
\* first such element in sequence order.
C4_FirstMatchDecides ==
  op = "hasAccess" =>
    \A k \in MatchesOf(paths, queryPath) :
      (\A j \in MatchesOf(paths, queryPath) : k <= j)
        => /\ ~threw
           /\ granted = (paths[k].access > -1 /\ user.level >= paths[k].access)

\* Two elements share the path; the first grants, the second alone would not.
C4_Witness ==
  /\ op = "hasAccess"
  /\ Len(paths) = 2
  /\ MatchesOf(paths, queryPath) = {1, 2}
  /\ paths[1].access = 0
  /\ paths[2].access > user.level
  /\ granted = TRUE

\* The index in paths of the n-th element that passes hasAccess.
KeptIndices(u, ps) ==
  {k \in 1..Len(ps) : hasAccess(u, ps[k].absolutePath, ps)}
NthKept(u, ps, n) ==
  CHOOSE k \in KeptIndices(u, ps) :
    Cardinality({j \in KeptIndices(u, ps) : j <= k}) = n

\* C7: getUserPaths returns exactly the subsequence of the resolved array
\* made of the elements r with hasAccess(user, r.absolutePath, paths), in
\* their original order, nothing added, duplicated or reordered, and it
\* leaves the resolved array unchanged.
C7_ExactFilter ==
  [][(op = "none" /\ op' = "getUserPaths") =>
       /\ paths' = paths
       /\ ~threw'
       /\ Len(userPaths') = Cardinality(KeptIndices(user', paths))
       /\ \A n \in 1..Len(userPaths') :
            userPaths'[n] = paths[NthKept(user', paths, n)]]_vars

\* The first element is dropped and the second kept.
C7_Witness ==
  /\ op = "getUserPaths"
  /\ Len(paths) = 2
  /\ userPaths = <<paths[2]>>
  /\ paths[1] # paths[2]

\* C9: hasAccess is monotone in the user's level: a path granted at a level
\* is granted at every higher level, for the same path and resolved array.
C9_Monotone ==
  (op = "hasAccess" /\ granted) =>
    \A l \in UserLevels :
      l >= user.level => hasAccess([level |-> l], queryPath, paths)

\* A grant at a level that is not the highest.
C9_Witness ==
  /\ op = "hasAccess"
  /\ granted
  /\ user.level < MaxLevel + 1
  /\ MatchesOf(paths, queryPath) # {}

(***************************************************************************)
(* The hierarchy a registry describes, as the specification reads it: a    *)
(* parent is null (a root) or a reference, by value, to a route's path.    *)
(***************************************************************************)
\* The routes a reference names.
Matches(reg, ref) == {k \in 1..Len(reg) : reg[k].path = ref}

\* Every non-null parent matches exactly one route's path.
WellFormed(reg) ==
  \A k \in 1..Len(reg) :
    reg[k].parent # Null => Cardinality(Matches(reg, reg[k].parent)) = 1

\* No two routes have the same relative path.
UniquePaths(reg) ==
  \A j, k \in 1..Len(reg) : reg[j].path = reg[k].path => j = k

\* Where the parent chain that starts at reference ref ends, followed for at
\* most fuel links: at a root, at a reference no route matches, or nowhere.
RECURSIVE ChainEnd(_, _, _)
ChainEnd(reg, ref, fuel) ==
  IF ref = Null THEN "root"
  ELSE IF Matches(reg, ref) = {} THEN "dangling"
  ELSE IF fuel = 0 THEN "cycle"
  ELSE ChainEnd(reg, reg[FirstIndex(Matches(reg, ref))].parent, fuel - 1)

\* A chain of more than Len(reg) links repeats a route.
ChainKind(reg, k) == ChainEnd(reg, reg[k].parent, Len(reg))

Acyclic(reg) == \A k \in 1..Len(reg) : ChainKind(reg, k) # "cycle"

\* The ancestors of route k: its parent, the parent's parent, and so on.
RECURSIVE AncestorsFrom(_, _, _)
AncestorsFrom(reg, ref, fuel) ==
  IF ref = Null \/ Matches(reg, ref) = {} \/ fuel = 0 THEN {}
  ELSE LET p == FirstIndex(Matches(reg, ref)) IN
         {p} \cup AncestorsFrom(reg, reg[p].parent, fuel - 1)

Ancestors(reg, k) == AncestorsFrom(reg, reg[k].parent, Len(reg))

\* The greatest element of a non-empty set of integers.
Greatest(S) == CHOOSE m \in S : \A n \in S : n <= m

\* The maximum level over route k and all of its ancestors.
InheritedLevel(reg, k) ==
  Greatest({reg[j].level : j \in {k} \cup Ancestors(reg, k)})

\* The paths of the ancestors from reference ref up, root first, an
\* ancestor whose path is "/" contributing nothing.
RECURSIVE AncestorPrefix(_, _, _)
AncestorPrefix(reg, ref, fuel) ==
  IF ref = Null \/ Matches(reg, ref) = {} \/ fuel = 0 THEN Empty
  ELSE LET p == FirstIndex(Matches(reg, ref)) IN
         AncestorPrefix(reg, reg[p].parent, fuel - 1)
           \o (IF reg[p].path = Slash THEN Empty ELSE reg[p].path)

\* The absolute path of route k: its ancestors' paths, then its own.
FullPath(reg, k) ==
  AncestorPrefix(reg, reg[k].parent, Len(reg)) \o reg[k].path

(***************************************************************************)
(* Properties of the resolution.                                           *)
(***************************************************************************)
\* C1: for a well-formed acyclic registry getAllPaths returns one
\* ResolvedRoute per route, at the index of its route, whose access is the
\* maximum level over the route and all of its ancestors up to the root.
C1_InheritedAccess ==
  (WellFormed(registry) /\ Acyclic(registry)) =>
    /\ pc # "threw"
    /\ pc = "done" =>
         /\ Len(paths) = Len(registry)
         /\ \A k \in 1..Len(registry) :
              paths[k].access = InheritedLevel(registry, k)

\* C2: getUserPaths, on the result of getAllPaths for a well-formed registry
\* with unique relative paths, returns only routes the user may view: each
\* returned route's own access is above -1 and at most the user's level.
C2_OnlyViewable ==
  (/\ op = "getUserPaths"
   /\ pc = "done"
   /\ WellFormed(registry)
   /\ UniquePaths(registry)) =>
    \A n \in 1..Len(userPaths) :
      userPaths[n].access > -1 /\ user.level >= userPaths[n].access

\* C5: for a well-formed acyclic registry the resolved absolutePath of a
\* route is the concatenation, root first and with no separator, of the
\* paths of its ancestors that are not "/", followed by its own path.
C5_RootFirstPath ==
  (pc = "done" /\ WellFormed(registry) /\ Acyclic(registry)) =>
    \A k \in 1..Len(registry) :
      paths[k].absolutePath = FullPath(registry, k)

\* C6: when a route reached by the resolution has a non-null parent that
\* matches no route's path, whatever its value, getAllPaths returns no
\* result.
C6_MissingParentFails ==
  (\E k \in 1..Len(registry) : ChainKind(registry, k) = "dangling")
    => pc # "done"

\* C8: the walk leaves its loop exactly when the parent reference is null,
\* it takes at most Len(registry) - 1 steps for each route of a well-formed
\* acyclic registry, and it never returns for a route whose parent chain
\* is cyclic.
C8_WalkTermination ==
  /\ (pc = "walk" /\ ~Truthy(currentParent)) => currentParent = Null
  /\ \A k \in 1..Len(result) : ChainKind(registry, k) # "cycle"
  /\ (WellFormed(registry) /\ Acyclic(registry)) =>
       \A k \in 1..Len(registry) : Len(visited[k]) <= Len(registry) - 1

\* C10 as claimed: on the result of a well-formed acyclic registry, a user
\* who is granted a route's absolute path is granted the absolute path of
\* every ancestor of the route.
C10_DownwardClosed ==
  (/\ op = "hasAccess"
   /\ granted
   /\ pc = "done"
   /\ WellFormed(registry)
   /\ Acyclic(registry)) =>
    \A k \in 1..Len(registry) :
      paths[k].absolutePath = queryPath =>
        \A p \in Ancestors(registry, k) :
          hasAccess(user, paths[p].absolutePath, paths)

\* C10 as claimed fails with a negative ancestor level alone: also where no
\* parent reference is the empty string and no two routes resolve to the
\* same absolute path.
C10_DownwardClosedDistinct ==
  (/\ \A k \in 1..Len(registry) : registry[k].parent # Empty
   /\ \A j, k \in 1..Len(paths) :
        paths[j].absolutePath = paths[k].absolutePath => j = k)
    => C10_DownwardClosed

\* C10 as amended: the effective access of a route is at least that of
\* every route its ancestor walk visited, so that a user granted the
\* route's own effective access is granted the own effective access of
\* each visited ancestor whose effective access is above -1.
C10_AccessAlongWalk ==
  pc = "done" =>
    \A k \in 1..Len(registry) :
      \A n \in 1..Len(visited[k]) :
        LET p == visited[k][n] IN
          /\ paths[k].access >= paths[p].access
          /\ \A u \in Users :
               (/\ _accessGranted(Num(paths[k].access), Num(u.level))
                /\ paths[p].access > -1)
                 => _accessGranted(Num(paths[p].access), Num(u.level))

\* A resolved route above its visited parent, both viewable by some user.
C10_Witness ==
  /\ pc = "done"
  /\ \E k \in 1..Len(registry) :
       /\ Len(visited[k]) >= 1
       /\ paths[visited[k][1]].access > -1
       /\ paths[k].access > paths[visited[k][1]].access
====
